---- MODULE Spec2Model ----
(***************************************************************************)
(* Model of the software rasterization pipeline of                        *)
(* src/rasterizer/pipeline.cpp (Pipeline<primitive_type, Program, flags>). *)
(*                                                                         *)
(* Spec             the fragment loop of Pipeline::run (depth test, depth  *)
(*                  write, fragment shading, blending, out-of-range count) *)
(* SpecClipLine     Pipeline::clip_line applied to a pair of shaded        *)
(*                  vertices                                               *)
(* SpecClipTriangle Pipeline::clip_triangle applied to a triple of shaded  *)
(*                  vertices                                               *)
(* SpecRasterizeLine, SpecRasterizeLineOffGrid                             *)
(*                  Pipeline::rasterize_line applied to a pair of clipped  *)
(*                  vertices (ends on quarter pixels; one end next to one) *)
(* SpecRasterizeTriangle, SpecInterpolateTriangle                          *)
(*                  Pipeline::rasterize_triangle applied to a triple of    *)
(*                  clipped vertices (flat; smooth and correct)            *)
(* SpecRun          Pipeline::run from the vertex list to the warning      *)
(*                                                                         *)
(* Representation of numbers.                                              *)
(*  - Framebuffer positions of fragments are integers counting half       *)
(*    pixels (fb_position.x = 0.5 is 1), so that std::floor is h \div 2.   *)
(*  - Depths are integers counting tenths (0.3 is 3); the fragment loop    *)
(*    only compares and copies them.                                       *)
(*  - Colors are triples of integers; opacities count halves (0.5 is 1).   *)
(*  - Clip-space floats are modelled as binary floating-point numbers with *)
(*    a MantBits-bit significand, round-to-nearest-even, held as integer   *)
(*    multiples of 2^-FracBits.                                            *)
(***************************************************************************)
EXTENDS Integers, Sequences, FiniteSets, TLC

\* framebuffer.width, framebuffer.height of the framebuffer handed to run
Width == 2
Height == 2
\* largest number of fragments the fragment loop of one run iterates over
MaxFrags == 2
\* width of the significand of the modelled `float` (24 in the build), and
\* the binary digits kept after the point (the weight of the smallest
\* subnormal); One is the float 1.0f
MantBits == 8
FracBits == MantBits + 4
\* the lines handed to rasterize_line end within [0, MaxLineX] x [0, MaxLineY]
MaxLineX == 3
MaxLineY == 4
\* the triangles handed to rasterize_triangle have their corners on the
\* pixel corners of [0, MaxCorner] x [0, MaxCorner]
MaxCorner == 3
\* largest number of vertices handed to run
MaxVertices == 5

VARIABLES
    pc,            \* position in the modelled function
    flags,         \* the template parameter `flags`, decoded into its fields
    fb_depth,      \* framebuffer.depth_at(x, y, 0), by pixel
    fb_color,      \* framebuffer.color_at(x, y, 0), by pixel
    fb_depth0,     \* the depths when run was called
    fb_color0,     \* the colors when run was called
    fragments,     \* the fragments the loop has iterated over so far, in order
    out_of_range,  \* the local counter of run
    shade_calls,   \* the attributes of every Program::shade_fragment call, in order
    warned,        \* whether run issued the out-of-range warning
    va, vb, vc,    \* the arguments of clip_line / clip_triangle
    min_t, max_t,  \* the range clip_line computed
    emitted,       \* the vertices passed to emit_vertex, in order
    rasterized,    \* the fragments passed to emit_fragment, in order
    undefined,     \* whether a division by zero was evaluated
    primitive_type,    \* the template parameter `primitive_type`
    vertices,          \* the vertices handed to run
    shaded_vertices,   \* run's vector of shaded vertices
    clipped_vertices,  \* run's vector of clipped vertices
    clip_calls,        \* the indices of every clip_line / clip_triangle call, in order
    loop_i             \* the index i of run's clipping and rasterization loops

vars == <<pc, flags, fb_depth, fb_color, fb_depth0, fb_color0, fragments,
          out_of_range, shade_calls, warned, va, vb, vc, min_t, max_t, emitted,
          rasterized, undefined, primitive_type, vertices, shaded_vertices,
          clipped_vertices, clip_calls, loop_i>>

fragVars == <<fb_depth, fb_color, fb_depth0, fb_color0, fragments,
              out_of_range, shade_calls, warned>>
clipVars == <<va, vb, vc, min_t, max_t, emitted>>
rasterVars == <<rasterized, undefined>>
runVars == <<primitive_type, vertices, shaded_vertices, clipped_vertices, clip_calls,
             loop_i>>

-----------------------------------------------------------------------------
(* Pipeline flags                                                          *)

DepthModes == {"Always", "Never", "Less"}
BlendModes == {"Replace", "Add", "Over"}
InterpModes == {"Flat", "Smooth", "Correct"}

Flags == [depth : DepthModes, depthWriteDisable : BOOLEAN,
          colorWriteDisable : BOOLEAN, blend : BlendModes, interp : InterpModes]

-----------------------------------------------------------------------------
(* The fragment loop of Pipeline::run                                      *)

Pixels == (0 .. Width - 1) \X (0 .. Height - 1)

\* std::floor of a position given in half pixels
Floor(h) == h \div 2

\* run, lines 124-125: the fragment's pixel lies outside the framebuffer
OutOfRange(x, y) == x < 0 \/ x >= Width \/ y < 0 \/ y >= Height

\* Program::shade_fragment of a program that passes its attributes through:
\* attributes = <<r, g, b, opacity>>
ShadeFragment(attributes) ==
    [color |-> <<attributes[1], attributes[2], attributes[3]>>,
     opacity |-> attributes[4]]

\* DepthTestPasses with the Depth_Never branch falling through
DepthTestPassesNeverFallsThrough(mode, z, stored) ==
    CASE mode = "Always" -> TRUE
      [] mode = "Never"  -> TRUE
      [] mode = "Less"   -> TRUE

\* run, lines 136-147: TRUE iff control reaches the depth write.  The
\* Depth_Less branch is an empty block (the comparison is a TODO).
DepthTestPasses(mode, z, stored) ==
    CASE mode = "Always" -> TRUE
      [] mode = "Never"  -> FALSE
      [] mode = "Less"   -> TRUE

\* DepthWrite placed inside the color-write block
DepthWriteNeedsColorWrite(fl, z, stored) ==
    IF ~fl.depthWriteDisable /\ ~fl.colorWriteDisable THEN z ELSE stored

\* run, lines 150-152: the new stored depth
DepthWrite(fl, z, stored) ==
    IF ~fl.depthWriteDisable THEN z ELSE stored

\* Blend with Blend_Replace storing color * opacity
BlendScalesReplace(fl, sf, stored) ==
    IF fl.colorWriteDisable THEN stored
    ELSE IF fl.blend = "Replace"
         THEN [i \in 1 .. 3 |-> (sf.color[i] * sf.opacity) \div 2]
         ELSE sf.color

\* run, lines 160-176: the new stored color.  All three blend branches
\* assign sf.color (Blend_Add and Blend_Over are TODOs).
Blend(fl, sf, stored) ==
    IF fl.colorWriteDisable THEN stored
    ELSE CASE fl.blend = "Replace" -> sf.color
           [] fl.blend = "Add"     -> sf.color
           [] fl.blend = "Over"    -> sf.color

\* the fragments the rasterization stage may hand to the loop
\* (pixel centers (0.5,0.5) and (1.5,1.5), and three positions off the framebuffer)
FragPositions == {<<1, 1>>, <<3, 3>>, <<-1, 1>>, <<2 * Width + 1, 1>>, <<1, 2 * Height + 1>>}
FragDepths == {3, 7}
FragAttributes == {<<1, 0, 0, 1>>, <<0, 1, 0, 2>>}
Fragments == {[x |-> q[1], y |-> q[2], z |-> d, attributes |-> a] :
                 q \in FragPositions, d \in FragDepths, a \in FragAttributes}

\* the framebuffer contents when run is called: <<depth, color>> of every pixel
InitClears == {<<5, <<0, 0, 1>>>>, <<10, <<0, 0, 0>>>>}

NoVertex == [clip_position |-> <<0, 0, 0, 0>>, attributes |-> <<0>>]

\* no vertex list is being run: the variables of the vertex stages are idle
RunIdle ==
    /\ primitive_type = "Lines"
    /\ vertices = <<>>
    /\ shaded_vertices = <<>>
    /\ clipped_vertices = <<>>
    /\ clip_calls = <<>>
    /\ loop_i = 0

ClipIdle ==
    /\ va = NoVertex /\ vb = NoVertex /\ vc = NoVertex
    /\ min_t = 0 /\ max_t = 0
    /\ emitted = <<>>
    /\ rasterized = <<>>
    /\ undefined = FALSE

Init ==
    /\ pc = "fragments"
    /\ flags \in {fl \in Flags : fl.interp = "Flat"}
    /\ \E c \in InitClears :
          /\ fb_depth = [p \in Pixels |-> c[1]]
          /\ fb_color = [p \in Pixels |-> c[2]]
    /\ fb_depth0 = fb_depth
    /\ fb_color0 = fb_color
    /\ fragments = <<>>
    /\ out_of_range = 0
    /\ shade_calls = <<>>
    /\ warned = FALSE
    /\ ClipIdle
    /\ RunIdle

\* run, lines 116-176: the body of the fragment loop for fragment f
LoopBody(f) ==
    /\ fragments' = Append(fragments, f)
    /\ LET x == Floor(f.x)
           y == Floor(f.y)
           p == <<x, y>>
       IN  IF OutOfRange(x, y)
           THEN /\ out_of_range' = out_of_range + 1
                /\ UNCHANGED <<fb_depth, fb_color, shade_calls>>
           ELSE IF ~DepthTestPasses(flags.depth, f.z, fb_depth[p])
           THEN UNCHANGED <<out_of_range, fb_depth, fb_color, shade_calls>>
           ELSE /\ fb_depth' = [fb_depth EXCEPT ![p] = DepthWrite(flags, f.z, @)]
                /\ shade_calls' = Append(shade_calls, f.attributes)
                /\ fb_color' = [fb_color EXCEPT
                                  ![p] = Blend(flags, ShadeFragment(f.attributes), @)]
                /\ UNCHANGED out_of_range

\* run, lines 115-177: one iteration of the fragment loop, for fragment f
ProcessFragment(f) ==
    /\ pc = "fragments"
    /\ Len(fragments) < MaxFrags
    /\ LoopBody(f)
    /\ UNCHANGED <<pc, flags, fb_depth0, fb_color0, warned>>
    /\ UNCHANGED clipVars
    /\ UNCHANGED rasterVars
    /\ UNCHANGED runVars

\* FinishRun issuing the warning after every run
FinishRunAlwaysWarns ==
    /\ pc = "fragments"
    /\ pc' = "done"
    /\ warned' = TRUE
    /\ UNCHANGED <<flags, fb_depth, fb_color, fb_depth0, fb_color0, fragments,
                   out_of_range, shade_calls>>
    /\ UNCHANGED clipVars
    /\ UNCHANGED rasterVars
    /\ UNCHANGED runVars

\* run, lines 178-189: the loop is over; warn iff fragments were out of range
FinishRun ==
    /\ pc = "fragments"
    /\ pc' = "done"
    /\ warned' = (out_of_range > 0)
    /\ UNCHANGED <<flags, fb_depth, fb_color, fb_depth0, fb_color0, fragments,
                   out_of_range, shade_calls>>
    /\ UNCHANGED clipVars
    /\ UNCHANGED rasterVars
    /\ UNCHANGED runVars

Next ==
    \/ \E f \in Fragments : ProcessFragment(f)
    \/ FinishRun

Spec == Init /\ [][Next]_vars

-----------------------------------------------------------------------------
(* float arithmetic: a float is the integer n standing for n / 2^FracBits  *)

RECURSIVE Pow2(_)
Pow2(n) == IF n = 0 THEN 1 ELSE 2 * Pow2(n - 1)

RECURSIVE BitLen(_)
BitLen(n) == IF n = 0 THEN 0 ELSE 1 + BitLen(n \div 2)

Abs(n) == IF n < 0 THEN -n ELSE n
Max(m, n) == IF m < n THEN n ELSE m
Min(m, n) == IF n < m THEN n ELSE m

One == Pow2(FracBits)

\* the distance between neighbouring floats at magnitude m
Ulp(m) == IF BitLen(m) <= MantBits THEN 1 ELSE Pow2(BitLen(m) - MantBits)

\* the float nearest to the rational num/den (in units of 2^-FracBits),
\* ties to the even significand: the rounding of every float operation
RoundRat(num, den) ==
    LET s  == IF (num < 0) # (den < 0) THEN -1 ELSE 1
        m  == Abs(num)
        d  == Abs(den)
        st == Ulp(m \div d)
        k  == m \div (d * st)
        r  == m - k * (d * st)
        up == 2 * r > d * st \/ (2 * r = d * st /\ k % 2 = 1)
    IN  s * (IF up THEN k + 1 ELSE k) * st

FAdd(x, y) == RoundRat(x + y, 1)
FSub(x, y) == RoundRat(x - y, 1)
FMul(x, y) == RoundRat(x * y, One)
FDiv(x, y) == RoundRat(x * One, y)

-----------------------------------------------------------------------------
(* Pipeline::lerp, Pipeline::clip_line, Pipeline::clip_triangle            *)

\* lerp, lines 196-203
Lerp(a, b, t) ==
    [clip_position |->
        [i \in 1 .. 4 |-> FAdd(FMul(FSub(b.clip_position[i], a.clip_position[i]), t),
                               a.clip_position[i])],
     attributes |->
        [i \in 1 .. Len(a.attributes) |->
            FAdd(FMul(FSub(b.attributes[i], a.attributes[i]), t), a.attributes[i])]]

\* ClipRange with the two tightening branches exchanged
ClipRangeBranchesSwapped(rng, l, dl, r, dr) ==
    IF dr = dl
    THEN IF FSub(l, r) > 0 THEN <<One, 0>> ELSE rng
    ELSE IF dr > dl
    THEN <<rng[1], Min(rng[2], FDiv(FSub(l, r), FSub(dr, dl)))>>
    ELSE <<Max(rng[1], FDiv(FSub(l, r), FSub(dr, dl))), rng[2]>>

\* ClipRange without the collapse of the range at a violated parallel plane
ClipRangeKeepsParallel(rng, l, dl, r, dr) ==
    IF dr = dl
    THEN rng
    ELSE IF dr > dl
    THEN <<Max(rng[1], FDiv(FSub(l, r), FSub(dr, dl))), rng[2]>>
    ELSE <<rng[1], Min(rng[2], FDiv(FSub(l, r), FSub(dr, dl)))>>

\* the lambda clip_range of clip_line, lines 232-253: the range
\* rng = <<min_t, max_t>> restricted to l + t * dl <= r + t * dr
ClipRange(rng, l, dl, r, dr) ==
    IF dr = dl
    THEN IF FSub(l, r) > 0 THEN <<One, 0>> ELSE rng
    ELSE IF dr > dl
    THEN <<Max(rng[1], FDiv(FSub(l, r), FSub(dr, dl))), rng[2]>>
    ELSE <<rng[1], Min(rng[2], FDiv(FSub(l, r), FSub(dr, dl)))>>

\* clip_line, lines 226-268: the range left by the six clip_range calls
ClipLineRange(a, b) ==
    LET ba == [i \in 1 .. 4 |-> FSub(b[i], a[i])]
        r1 == ClipRange(<<0, One>>, -a[4], -ba[4], a[1], ba[1])
        r2 == ClipRange(r1, a[1], ba[1], a[4], ba[4])
        r3 == ClipRange(r2, -a[4], -ba[4], a[2], ba[2])
        r4 == ClipRange(r3, a[2], ba[2], a[4], ba[4])
        r5 == ClipRange(r4, -a[4], -ba[4], a[3], ba[3])
    IN  ClipRange(r5, a[3], ba[3], a[4], ba[4])

\* ClipLineInterpolated measuring t from vb
ClipLineInterpolatedFromB(fl, t) ==
    IF fl.interp = "Flat"
    THEN [Lerp(vb, va, t) EXCEPT !.attributes = va.attributes]
    ELSE Lerp(vb, va, t)

\* ClipLineInterpolated without the flat-mode assignment
ClipLineInterpolatedAlwaysLerps(fl, t) == Lerp(va, vb, t)

\* clip_line, lines 273-279 and 283-289: the vertex emitted at parameter t
\* when t is not the end of the range that keeps the input vertex
ClipLineInterpolated(fl, t) ==
    IF fl.interp = "Flat"
    THEN [Lerp(va, vb, t) EXCEPT !.attributes = va.attributes]
    ELSE Lerp(va, vb, t)

\* clip_line, lines 270-291, for the vertices a and b: the vertices passed
\* to emit_vertex, in order, given the range rng the six clips left
ClipLineEmitsIn(fl, a, b, rng) ==
    IF rng[1] < rng[2]
    THEN <<IF rng[1] = 0 THEN a
           ELSE IF fl.interp = "Flat"
                THEN [Lerp(a, b, rng[1]) EXCEPT !.attributes = a.attributes]
                ELSE Lerp(a, b, rng[1]),
           IF rng[2] = One THEN b
           ELSE IF fl.interp = "Flat"
                THEN [Lerp(a, b, rng[2]) EXCEPT !.attributes = a.attributes]
                ELSE Lerp(a, b, rng[2])>>
    ELSE <<>>

\* clip_line, lines 217-292: the vertices the call clip_line(a, b) emits
ClipLineEmits(fl, a, b) ==
    ClipLineEmitsIn(fl, a, b, ClipLineRange(a.clip_position, b.clip_position))

\* the shaded vertices handed to clip_line: clip_position = <<x, y, z, w>>
ClipPositions == {<<x * One, y * One, z * One, w * One>> :
                     x \in {-3, 0, 1, 2}, y \in {0, 2}, z \in {-2, 0}, w \in {-2, 0, 1, 3}}
FirstAttributes == {<<1 * One>>}
SecondAttributes == {<<3 * One>>}

FragmentsIdle ==
    /\ fb_depth = [p \in Pixels |-> 0]
    /\ fb_color = [p \in Pixels |-> <<0, 0, 0>>]
    /\ fb_depth0 = fb_depth
    /\ fb_color0 = fb_color
    /\ fragments = <<>>
    /\ out_of_range = 0
    /\ shade_calls = <<>>
    /\ warned = FALSE

InitClipLine ==
    /\ pc = "clip_line"
    /\ flags \in {fl \in Flags : /\ fl.depth = "Always" /\ fl.blend = "Replace"
                                 /\ ~fl.depthWriteDisable /\ ~fl.colorWriteDisable}
    /\ va \in [clip_position : ClipPositions, attributes : FirstAttributes]
    /\ vb \in [clip_position : ClipPositions, attributes : SecondAttributes]
    /\ vc = NoVertex
    /\ min_t = 0 /\ max_t = One
    /\ emitted = <<>>
    /\ rasterized = <<>>
    /\ undefined = FALSE
    /\ FragmentsIdle
    /\ RunIdle

\* clip_line, lines 217-292
ClipLine ==
    /\ pc = "clip_line"
    /\ pc' = "line_clipped"
    /\ LET rng == ClipLineRange(va.clip_position, vb.clip_position)
       IN  /\ min_t' = rng[1]
           /\ max_t' = rng[2]
           /\ emitted' =
                 IF rng[1] < rng[2]
                 THEN <<IF rng[1] = 0 THEN va ELSE ClipLineInterpolated(flags, rng[1]),
                        IF rng[2] = One THEN vb ELSE ClipLineInterpolated(flags, rng[2])>>
                 ELSE <<>>
    /\ UNCHANGED <<flags, va, vb, vc>>
    /\ UNCHANGED fragVars
    /\ UNCHANGED rasterVars
    /\ UNCHANGED runVars

NextClipLine == ClipLine

SpecClipLine == InitClipLine /\ [][NextClipLine]_vars

\* the shaded vertices handed to clip_triangle
TrianglePositions == {<<x * One, y * One, 0, w * One>> :
                         x \in {-3, 0, 2}, y \in {0, 1}, w \in {1, 2}}

InitClipTriangle ==
    /\ pc = "clip_triangle"
    /\ flags \in {fl \in Flags : /\ fl.depth = "Always" /\ fl.blend = "Replace"
                                 /\ ~fl.depthWriteDisable /\ ~fl.colorWriteDisable
                                 /\ fl.interp = "Flat"}
    /\ va \in [clip_position : TrianglePositions, attributes : FirstAttributes]
    /\ vb \in [clip_position : TrianglePositions, attributes : SecondAttributes]
    /\ vc \in [clip_position : TrianglePositions, attributes : SecondAttributes]
    /\ min_t = 0 /\ max_t = One
    /\ emitted = <<>>
    /\ rasterized = <<>>
    /\ undefined = FALSE
    /\ FragmentsIdle
    /\ RunIdle

\* clip_triangle, lines 306-314: the three vertices are emitted as they are
ClipTriangle ==
    /\ pc = "clip_triangle"
    /\ pc' = "triangle_clipped"
    /\ emitted' = <<va, vb, vc>>
    /\ UNCHANGED <<flags, va, vb, vc, min_t, max_t>>
    /\ UNCHANGED fragVars
    /\ UNCHANGED rasterVars
    /\ UNCHANGED runVars

NextClipTriangle == ClipTriangle

SpecClipTriangle == InitClipTriangle /\ [][NextClipTriangle]_vars

-----------------------------------------------------------------------------
(* Properties of the fragment loop (checked under Spec)                    *)

\* the pixel a fragment lands in, and whether it is inside the framebuffer
PixelOf(f) == <<Floor(f.x), Floor(f.y)>>
InBounds(f) == ~OutOfRange(Floor(f.x), Floor(f.y))
\* a step of the loop happened, and the fragment it processed
LoopStep == fragments' # fragments
StepFragment == fragments'[Len(fragments')]
\* the indices of the processed fragments that landed in pixel p
LandedAt(p) == {i \in 1 .. Len(fragments) : PixelOf(fragments[i]) = p}
SetMin(S) == CHOOSE m \in S : \A n \in S : m <= n
\* the depth test as the pipeline's description states it
StatedDepthPass(mode, z, stored) ==
    \/ mode = "Always"
    \/ mode = "Less" /\ z < stored

\* C1: with depth mode Less an in-bounds fragment passes the depth test iff
\* its depth is strictly less than the depth stored at its pixel when it is
\* processed; a fragment that does not pass is not shaded and changes neither
\* the stored depth nor the stored color.
C1_LessPassesIffStrictlyLess ==
    [][(LoopStep /\ flags.depth = "Less" /\ InBounds(StepFragment)) =>
          IF StepFragment.z < fb_depth[PixelOf(StepFragment)]
          THEN shade_calls' = Append(shade_calls, StepFragment.attributes)
          ELSE /\ shade_calls' = shade_calls
               /\ fb_depth' = fb_depth
               /\ fb_color' = fb_color]_vars

\* C2: with depth mode Less and depth writes enabled the stored depth of a
\* pixel never increases: after any sequence of fragments it is the minimum
\* of the initial depth and the depths of the fragments that landed there.
C2_LessKeepsMinimumDepth ==
    (flags.depth = "Less" /\ ~flags.depthWriteDisable) =>
        \A p \in Pixels :
            fb_depth[p] = SetMin({fb_depth0[p]} \cup
                                 {fragments[i].z : i \in LandedAt(p)})

\* C3: with blend mode Over and color writes enabled, each fragment that
\* passes the depth test sets the pixel's color to
\* color * opacity + previous color * (1 - opacity)  (opacity in halves).
C3_OverBlends ==
    [][(LoopStep /\ flags.blend = "Over" /\ ~flags.colorWriteDisable
          /\ InBounds(StepFragment)
          /\ StatedDepthPass(flags.depth, StepFragment.z,
                             fb_depth[PixelOf(StepFragment)])) =>
          LET p == PixelOf(StepFragment)
              sf == ShadeFragment(StepFragment.attributes)
          IN  \A i \in 1 .. 3 :
                 2 * fb_color'[p][i] =
                     sf.color[i] * sf.opacity + fb_color[p][i] * (2 - sf.opacity)]_vars

\* C4: with blend mode Add and color writes enabled, each fragment that
\* passes the depth test sets the pixel's color to
\* previous color + color * opacity  (opacity in halves).
C4_AddBlends ==
    [][(LoopStep /\ flags.blend = "Add" /\ ~flags.colorWriteDisable
          /\ InBounds(StepFragment)
          /\ StatedDepthPass(flags.depth, StepFragment.z,
                             fb_depth[PixelOf(StepFragment)])) =>
          LET p == PixelOf(StepFragment)
              sf == ShadeFragment(StepFragment.attributes)
          IN  \A i \in 1 .. 3 :
                 2 * fb_color'[p][i] =
                     2 * fb_color[p][i] + sf.color[i] * sf.opacity]_vars

\* C5: with blend mode Replace, color writes enabled and depth mode Always,
\* after run every pixel holds the shaded color of the last fragment that
\* landed in it, whatever that fragment's opacity, and a pixel in which no
\* in-bounds fragment landed keeps the color it had before run.
C5_ReplaceKeepsLastFragment ==
    (pc = "done" /\ flags.blend = "Replace" /\ ~flags.colorWriteDisable
       /\ flags.depth = "Always") =>
        \A p \in Pixels :
            IF LandedAt(p) = {}
            THEN fb_color[p] = fb_color0[p]
            ELSE LET last == CHOOSE i \in LandedAt(p) : \A j \in LandedAt(p) : j <= i
                 IN  fb_color[p] = ShadeFragment(fragments[last].attributes).color

\* a finished Replace run in which one pixel received two fragments of
\* different colors, the last of them half transparent, and another pixel none
C5_Witness ==
    /\ pc = "done" /\ flags.blend = "Replace" /\ ~flags.colorWriteDisable
    /\ flags.depth = "Always"
    /\ Len(fragments) = 2
    /\ PixelOf(fragments[1]) = <<0, 0>> /\ PixelOf(fragments[2]) = <<0, 0>>
    /\ fragments[1].attributes = <<0, 1, 0, 2>>
    /\ fragments[2].attributes = <<1, 0, 0, 1>>
    /\ fb_color[<<0, 0>>] = <<1, 0, 0>>
    /\ fb_color[<<1, 1>>] = fb_color0[<<1, 1>>]

\* C6: with depth mode Never no fragment is shaded and every depth cell and
\* color cell keeps the value it had before run, whatever the depth-write,
\* color-write and blend flags are.
C6_NeverDiscardsEverything ==
    flags.depth = "Never" =>
        /\ shade_calls = <<>>
        /\ fb_depth = fb_depth0
        /\ fb_color = fb_color0

\* a finished Never run with both writes enabled that was handed an
\* in-bounds fragment whose depth and color differ from the stored ones
C6_Witness ==
    /\ pc = "done" /\ flags.depth = "Never"
    /\ ~flags.depthWriteDisable /\ ~flags.colorWriteDisable
    /\ \E i \in 1 .. Len(fragments) :
          /\ InBounds(fragments[i])
          /\ fragments[i].z # fb_depth0[PixelOf(fragments[i])]
          /\ ShadeFragment(fragments[i].attributes).color
                # fb_color0[PixelOf(fragments[i])]

\* C7: a fragment that passes the depth test overwrites the stored depth of
\* its pixel with its own depth when the depth-write-disable bit is clear,
\* whether or not color writes are enabled; when the bit is set no fragment
\* changes any stored depth.
C7_DepthWriteIndependentOfColorWrite ==
    [][LoopStep =>
          /\ flags.depthWriteDisable => fb_depth' = fb_depth
          /\ (~flags.depthWriteDisable /\ InBounds(StepFragment)
                /\ StatedDepthPass(flags.depth, StepFragment.z,
                                   fb_depth[PixelOf(StepFragment)])) =>
                 fb_depth'[PixelOf(StepFragment)] = StepFragment.z]_vars

\* color writes are disabled, depth writes are not, and a fragment has
\* replaced the depth of a pixel while every color is untouched
C7_Witness ==
    /\ flags.colorWriteDisable /\ ~flags.depthWriteDisable
    /\ Len(fragments) = 1 /\ InBounds(fragments[1])
    /\ fb_depth[PixelOf(fragments[1])] = fragments[1].z
    /\ fb_depth[PixelOf(fragments[1])] # fb_depth0[PixelOf(fragments[1])]
    /\ fb_color = fb_color0

\* the processed fragments whose pixel lies outside the framebuffer
OutOfBounds == {i \in 1 .. Len(fragments) : ~InBounds(fragments[i])}

\* C22: a fragment whose floored position lies outside the framebuffer
\* raises the out-of-range count by exactly one and is skipped: no depth or
\* color cell changes and shade_fragment is not called; the loop goes on
\* with the later fragments (the count is the number of such fragments among
\* all those processed, and run can always take its next step until it is
\* done), and the warning is issued iff the count is greater than zero.
C22_OutOfRangeCounted ==
    /\ [][(LoopStep /\ ~InBounds(StepFragment)) =>
             /\ out_of_range' = out_of_range + 1
             /\ fb_depth' = fb_depth
             /\ fb_color' = fb_color
             /\ shade_calls' = shade_calls
             /\ pc' = "fragments"]_vars
    /\ [][(LoopStep /\ InBounds(StepFragment)) => out_of_range' = out_of_range]_vars
    /\ [](out_of_range = Cardinality(OutOfBounds))
    /\ [](pc = "done" \/ ENABLED Next)
    /\ [](warned <=> (pc = "done" /\ out_of_range > 0))

\* a finished run whose first fragment was out of range and skipped, whose
\* second fragment was in bounds and shaded, and which issued the warning
C22_Witness ==
    /\ pc = "done"
    /\ Len(fragments) = 2
    /\ ~InBounds(fragments[1]) /\ InBounds(fragments[2])
    /\ out_of_range = 1
    /\ shade_calls = <<fragments[2].attributes>>
    /\ flags.depth = "Always" /\ ~flags.depthWriteDisable
    /\ fb_depth[PixelOf(fragments[2])] = fragments[2].z
    /\ warned

-----------------------------------------------------------------------------
(* Properties of clip_line (checked under SpecClipLine) and of             *)
(* clip_triangle (checked under SpecClipTriangle)                          *)

\* the clip position p = <<x, y, z, w>> lies in the clip volume
Contained(p) == \A k \in 1 .. 3 : -p[4] <= p[k] /\ p[k] <= p[4]
\* the largest magnitude among the coordinates of two clip positions
MaxCoordinate(a, b) ==
    LET S == {Abs(a[k]) : k \in 1 .. 4} \cup {Abs(b[k]) : k \in 1 .. 4}
    IN  CHOOSE m \in S : \A n \in S : n <= m

\* C8 (as stated): every vertex clip_line passes to emit_vertex satisfies
\* -w <= x <= w, -w <= y <= w and -w <= z <= w exactly.
C8_ClipLineContainment ==
    pc = "line_clipped" =>
        \A i \in 1 .. Len(emitted) : Contained(emitted[i].clip_position)

\* C8 (amended): every vertex clip_line passes to emit_vertex satisfies
\* -w <= x,y,z <= w within floating-point tolerance: no coordinate leaves
\* [-w, w] by more than 16 units in the last place of the largest coordinate
\* magnitude of the two endpoints.
C8_ClipLineContainmentWithinTolerance ==
    pc = "line_clipped" =>
        \A i \in 1 .. Len(emitted) : \A k \in 1 .. 3 :
            Abs(emitted[i].clip_position[k]) - emitted[i].clip_position[4]
                <= 16 * Ulp(MaxCoordinate(va.clip_position, vb.clip_position))

\* a segment that starts at negative w is clipped to a first vertex created
\* by interpolation whose rounded position is not exactly inside the volume
C8_Witness ==
    /\ pc = "line_clipped"
    /\ va.clip_position[4] < 0
    /\ Len(emitted) = 2
    /\ min_t > 0
    /\ ~Contained(emitted[1].clip_position)
    /\ Contained(emitted[2].clip_position)

\* C9: every vertex clip_triangle passes to emit_vertex satisfies
\* -w <= x <= w, -w <= y <= w and -w <= z <= w, also for triangles that lie
\* partly outside the clip volume.
C9_ClipTriangleContainment ==
    pc = "triangle_clipped" =>
        \A i \in 1 .. Len(emitted) :
            \A k \in 1 .. 3 :
                /\ -emitted[i].clip_position[4] <= emitted[i].clip_position[k]
                /\ emitted[i].clip_position[k] <= emitted[i].clip_position[4]

\* C10: clip_triangle calls emit_vertex not at all when no portion of the
\* triangle lies inside the clip volume (as when all three vertices violate
\* x <= w), and otherwise a positive multiple of three times.
C10_ClipTriangleEmitsNothingOutside ==
    pc = "triangle_clipped" =>
        LET T == {va.clip_position, vb.clip_position, vc.clip_position}
        IN  /\ Len(emitted) % 3 = 0
            /\ (\A q \in T : q[1] > q[4]) => Len(emitted) = 0
            /\ (\E q \in T : Contained(q)) => Len(emitted) > 0

\* the point of the segment va-vb at parameter t, as float arithmetic gives it
PointAt(t) ==
    [k \in 1 .. 4 |-> FAdd(FMul(FSub(vb.clip_position[k], va.clip_position[k]), t),
                           va.clip_position[k])]
\* some plane of the clip volume is parallel to the segment va-vb and
\* violated by va (and so by every point of the segment)
ParallelPlaneViolated ==
    LET a == va.clip_position
        b == vb.clip_position
    IN  \E k \in 1 .. 3 :
           \/ b[k] - a[k] = b[4] - a[4] /\ a[k] > a[4]
           \/ b[k] - a[k] = -(b[4] - a[4]) /\ -a[4] > a[k]

C12_ClipLineFlatAttributes ==
    pc = "line_clipped" =>
        \A i \in 1 .. Len(emitted) :
            LET t == IF i = 1 THEN min_t ELSE max_t
                kept == IF i = 1 THEN min_t = 0 ELSE max_t = One
            IN  ~kept =>
                   emitted[i].attributes =
                      IF flags.interp = "Flat"
                      THEN va.attributes
                      ELSE [j \in 1 .. Len(va.attributes) |->
                              FAdd(FMul(FSub(vb.attributes[j], va.attributes[j]), t),
                                   va.attributes[j])]

\* in flat mode the second vertex was created by interpolation and carries
\* the attributes of va, which differ from vb's and from the interpolated ones
C12_Witness ==
    /\ pc = "line_clipped"
    /\ flags.interp = "Flat"
    /\ Len(emitted) = 2
    /\ max_t < One
    /\ emitted[2].attributes = va.attributes
    /\ emitted[2].attributes # vb.attributes
    /\ emitted[2].attributes # Lerp(va, vb, max_t).attributes

\* C13: clip_line calls emit_vertex twice when the range left by the six
\* clips is not empty and not at all when it is empty (min_t >= max_t), as
\* for a segment parallel to a plane it violates or one that meets the clip
\* volume in a single point: never more than one vertex per input vertex.
C13_ClipLineEmitsZeroOrTwo ==
    pc = "line_clipped" =>
        /\ Len(emitted) \in {0, 2}
        /\ (Len(emitted) = 0) <=> (min_t >= max_t)
        /\ ParallelPlaneViolated => Len(emitted) = 0
        /\ (va.clip_position = vb.clip_position /\ ~Contained(va.clip_position)) =>
              Len(emitted) = 0

\* a segment that is parallel to a violated plane, but crosses the other
\* planes inside the unit range, emits nothing
C13_Witness ==
    /\ pc = "line_clipped"
    /\ ParallelPlaneViolated
    /\ va.clip_position # vb.clip_position
    /\ min_t >= max_t
    /\ emitted = <<>>


-----------------------------------------------------------------------------
(* Pipeline::rasterize_line                                                *)

Half == One \div 2

\* FLT_EPSILON: the distance from 1.0 to the next float
FLT_EPSILON == Pow2(FracBits - MantBits + 1)

\* std::floor, as the integer it is converted to
FloorPx(v) == v \div One

\* the conversion of an int to float
Px(n) == n * One

\* std::abs(py - y - 0.5) + std::abs(px - x - 0.5) <= 0.5: the float
\* differences py - y and px - x, the rest in double precision
NearCentre(px, py, x, y) ==
    Abs(FSub(py, Px(y)) - Half) + Abs(FSub(px, Px(x)) - Half) <= Half

\* the fragment emitted for pixel (x, y) with depth z
PointAtPixel(a, x, y, z) ==
    [fb_position |-> <<FAdd(Px(x), Half), FAdd(Px(y), Half), z>>,
     attributes  |-> a.attributes,
     derivatives |-> <<0, 0>>]

\* (zfar * (c + 0.5 - lo) + znear * (hi - c - 0.5)) / (hi - lo), evaluated
\* in double precision and converted to float by the Vec3 constructor
DoubleInterpolateZ(zfar, znear, c, lo, hi) ==
    RoundRat(zfar * (Px(c) + Half - lo) + znear * (FSub(hi, Px(c)) - Half),
             FSub(hi, lo))

\* interpolate_z = (zfar * (x + 0.5f - ax) + znear * (bx - x - 0.5f)) / (bx - ax),
\* every operation in float
InterpolateZ(zfar, znear, x, ax, bx) ==
    FDiv(FAdd(FMul(zfar, FSub(FAdd(Px(x), Half), ax)),
              FMul(znear, FSub(FSub(bx, Px(x)), Half))),
         FSub(bx, ax))

\* the vertical case with the last pixel tested against its lower edge
VerticalCaseKeepsLastPixel(a, b) ==
    LET reversed == a.fb_position[2] > b.fb_position[2]
        ax   == a.fb_position[1]
        ay   == Min(a.fb_position[2], b.fb_position[2])
        by   == Max(a.fb_position[2], b.fb_position[2])
        zlo  == IF reversed THEN b.fb_position[3] ELSE a.fb_position[3]
        zhi  == IF reversed THEN a.fb_position[3] ELSE b.fb_position[3]
        x    == FloorPx(ax)
        y    == FloorPx(ay)
        n    == Max(0, FloorPx(by) - 1 - y)
        yend == y + 1 + n
    IN  (IF NearCentre(ax, ay, x, y) \/ ay <= FAdd(Px(y), Half)
         THEN <<PointAtPixel(a, x, y, zhi)>> ELSE <<>>)
        \o [i \in 1 .. n |->
               PointAtPixel(a, x, y + i, DoubleInterpolateZ(zhi, zlo, y + i, ay, by))]
        \o (IF NearCentre(ax, ay, x, yend) \/ by >= Px(yend)
            THEN <<PointAtPixel(a, x, yend, zlo)>> ELSE <<>>)

\* the vertical case, lines 379-425
VerticalCase(a, b) ==
    LET reversed == a.fb_position[2] > b.fb_position[2]
        ax   == a.fb_position[1]
        ay   == Min(a.fb_position[2], b.fb_position[2])
        by   == Max(a.fb_position[2], b.fb_position[2])
        zlo  == IF reversed THEN b.fb_position[3] ELSE a.fb_position[3]
        zhi  == IF reversed THEN a.fb_position[3] ELSE b.fb_position[3]
        x    == FloorPx(ax)
        y    == FloorPx(ay)
        n    == Max(0, FloorPx(by) - 1 - y)
        yend == y + 1 + n
    IN  (IF NearCentre(ax, ay, x, y) \/ ay <= FAdd(Px(y), Half)
         THEN <<PointAtPixel(a, x, y, zhi)>> ELSE <<>>)
        \o [i \in 1 .. n |->
               PointAtPixel(a, x, y + i, DoubleInterpolateZ(zhi, zlo, y + i, ay, by))]
        \o (IF NearCentre(ax, ay, x, yend) \/ by >= FAdd(Px(yend), Half)
            THEN <<PointAtPixel(a, x, yend, zlo)>> ELSE <<>>)

\* the horizontal case, lines 445-491; l is the left end, r the right end
HorizontalCase(a, l, r) ==
    LET ax   == l.fb_position[1]
        ay   == l.fb_position[2]
        bx   == r.fb_position[1]
        x    == FloorPx(ax)
        y    == FloorPx(ay)
        n    == Max(0, FloorPx(bx) - 1 - x)
        xend == x + 1 + n
    IN  (IF NearCentre(ax, ay, x, y) \/ ax < FAdd(Px(x), Half)
         THEN <<PointAtPixel(a, x, y, l.fb_position[3])>> ELSE <<>>)
        \o [i \in 1 .. n |->
               PointAtPixel(a, x + i, y,
                   DoubleInterpolateZ(r.fb_position[3], l.fb_position[3], x + i, ax, bx))]
        \o (IF NearCentre(ax, ay, xend, y) \/ bx > FAdd(Px(xend), Half)
            THEN <<PointAtPixel(a, xend, y, r.fb_position[3])>> ELSE <<>>)

\* the fragments of a diagonal case from its starting pixel <<x, y>>, lines
\* 507-533 and 550-576: the rows go up (dy = 1) or down (dy = -1); then the
\* pixel of the right end, if the guard grd of the case holds
DiagonalFrom(a, l, r, start, dy, grd) ==
    LET ax == l.fb_position[1]
        bx == r.fb_position[1]
        by == r.fb_position[2]
        n  == Max(0, FloorPx(bx) - start[1])
    IN  [i \in 1 .. n |->
            PointAtPixel(a, start[1] + i - 1, start[2] + dy * (i - 1),
                InterpolateZ(r.fb_position[3], l.fb_position[3], start[1] + i - 1, ax, bx))]
        \o (IF NearCentre(bx, by, FloorPx(bx), FloorPx(by)) \/ grd
            THEN <<PointAtPixel(a, FloorPx(bx), FloorPx(by), r.fb_position[3])>>
            ELSE <<>>)

\* lines 498-505 and 541-548: the pixel a diagonal case starts at; d is
\* (ay - y) - (ax - x) for slope 1, and (ay - y) + (ax - x) for slope -1
DiagonalStart(x, y, d, dy) ==
    IF dy = 1
    THEN IF d < -Half THEN <<x + 1, y>> ELSE IF d > Half THEN <<x, y + 1>> ELSE <<x, y>>
    ELSE IF d < Half THEN <<x, y - 1>> ELSE IF d > 3 * Half THEN <<x + 1, y>> ELSE <<x, y>>

\* the case of slope 1, lines 494-536
DiagonalPositiveCase(a, l, r) ==
    LET ax == l.fb_position[1]
        ay == l.fb_position[2]
        bx == r.fb_position[1]
        by == r.fb_position[2]
    IN  DiagonalFrom(a, l, r,
            DiagonalStart(FloorPx(ax), FloorPx(ay),
                FSub(FSub(ay, Px(FloorPx(ay))), FSub(ax, Px(FloorPx(ax)))), 1),
            1,
            FSub(FAdd(FSub(by, Px(FloorPx(by))), bx), Px(FloorPx(bx))) > 3 * Half)

\* the case of slope -1, lines 538-577
DiagonalNegativeCase(a, l, r) ==
    LET ax == l.fb_position[1]
        ay == l.fb_position[2]
        bx == r.fb_position[1]
        by == r.fb_position[2]
    IN  DiagonalFrom(a, l, r,
            DiagonalStart(FloorPx(ax), FloorPx(ay),
                FAdd(FSub(ay, Px(FloorPx(ay))), FSub(ax, Px(FloorPx(ax)))), -1),
            -1,
            FSub(FSub(by, Px(FloorPx(by))), FSub(bx, Px(FloorPx(bx)))) < -Half)

\* the loop of the general case, lines 601-622 and 664-685: the pixels
\* <<x, y>> it visits, followed by the values of x and y it ends with
RECURSIVE GeneralLoop(_, _, _, _, _, _)
GeneralLoop(x, y, epsilon, slope, signslope, last) ==
    IF x > last
    THEN << <<x, y>> >>
    ELSE << <<x, y>> >> \o
         (IF epsilon > FSub(One, slope)
          THEN GeneralLoop(x + 1, y + signslope, FAdd(epsilon, FSub(slope, One)),
                           slope, signslope, last)
          ELSE GeneralLoop(x + 1, y, FAdd(epsilon, slope), slope, signslope, last))

\* lines 589-598 along the major axis: the pixel <<x, y>> the loop starts
\* at and the value of epsilon there
GeneralStart(ax, ay, slope, signslope) ==
    LET x0 == FloorPx(ax)
        y0 == FloorPx(ay)
        e0 == RoundRat(FSub(ay, Px(y0)) * One + (Px(x0) + Half - ax) * slope, One)
    IN  IF Px(y0) * One + slope * (FSub(ax, Px(x0)) - Half) > ay * One
        THEN <<x0 + 1, y0, FAdd(e0, slope)>>
        ELSE IF ay * One + (Px(x0) + Half - ax) * slope >= Px(y0 + 1) * One
        THEN <<x0, y0 + signslope, FSub(e0, One)>>
        ELSE IF FSub(FAdd(FSub(ax, Px(x0)), ay), Px(y0)) > 3 * Half
        THEN <<x0 + 1, y0 + signslope, FAdd(e0, FSub(slope, One))>>
        ELSE <<x0, y0, e0>>

\* lines 601-633 along the major axis: the points <<x, y, z>> emitted for the
\* pixels the loop visited, and for the pixel it ended at if the line
\* reaches its centre
GeneralEmit(visited, ax, bx, by, zl, zr) ==
    LET n  == Len(visited) - 1
        xe == visited[n + 1][1]
        ye == visited[n + 1][2]
    IN  [i \in 1 .. n |->
            <<visited[i][1], visited[i][2],
              InterpolateZ(zr, zl, visited[i][1], ax, bx)>>]
        \o (IF NearCentre(bx, by, xe, ye) \/ bx > FAdd(Px(xe), Half)
            THEN << <<xe, ye, zr>> >> ELSE <<>>)

\* the loop of the general case run from its start
GeneralVisit(start, slope, signslope, last) ==
    GeneralLoop(start[1], start[2], start[3], slope, signslope, last)

\* the general case, lines 587-635, along the major axis: (ax, ay) and
\* (bx, by) are the ends, zl and zr their depths, slope is at most 1;
\* the result lists <<x, y, z>> with x counted along the major axis
GeneralCase(ax, ay, bx, by, zl, zr, slope, signslope) ==
    GeneralEmit(GeneralVisit(GeneralStart(ax, ay, slope, signslope),
                             slope, signslope, FloorPx(bx) - 1),
                ax, bx, by, zl, zr)

\* the fragments of the points of a general case; steep exchanges the
\* roles of x and y again, lines 671 and 688
MajorAxisFragments(a, points, steep) ==
    [i \in 1 .. Len(points) |->
        PointAtPixel(a, IF steep THEN points[i][2] ELSE points[i][1],
                        IF steep THEN points[i][1] ELSE points[i][2],
                        points[i][3])]

\* lines 579-698: the general case for slopes below 1, and for slopes
\* above 1 with the roles of x and y exchanged
GeneralCases(a, l, r, slope) ==
    LET signslope == IF slope < 0 THEN -1 ELSE 1
        abslope   == IF slope < 0 THEN -slope ELSE slope
    IN  IF abslope < One
        THEN MajorAxisFragments(a,
                 GeneralCase(l.fb_position[1], l.fb_position[2],
                             r.fb_position[1], r.fb_position[2],
                             l.fb_position[3], r.fb_position[3],
                             abslope, signslope),
                 FALSE)
        ELSE IF abslope > One
        THEN MajorAxisFragments(a,
                 GeneralCase(l.fb_position[2], l.fb_position[1],
                             r.fb_position[2], r.fb_position[1],
                             l.fb_position[3], r.fb_position[3],
                             FDiv(One, abslope), signslope),
                 TRUE)
        ELSE <<>>

\* rasterize_line, lines 351-700: the fragments emitted for the line from a
\* to b, in order
RasterizeLine(a, b) ==
    LET reversed == b.fb_position[1] < a.fb_position[1]
        l        == IF reversed THEN b ELSE a
        r        == IF reversed THEN a ELSE b
        slope    == FDiv(FSub(r.fb_position[2], l.fb_position[2]),
                         FSub(r.fb_position[1], l.fb_position[1]))
    IN  IF /\ FloorPx(a.fb_position[1]) = FloorPx(b.fb_position[1])
           /\ FloorPx(a.fb_position[2]) = FloorPx(b.fb_position[2])
        THEN <<>>
        ELSE IF Abs(FSub(b.fb_position[1], a.fb_position[1])) < FLT_EPSILON
        THEN VerticalCase(a, b)
        ELSE IF Abs(slope) < FLT_EPSILON
        THEN HorizontalCase(a, l, r)
        ELSE IF Abs(FSub(slope, One)) < FLT_EPSILON
        THEN DiagonalPositiveCase(a, l, r)
        ELSE (IF Abs(FAdd(slope, One)) < FLT_EPSILON
              THEN DiagonalNegativeCase(a, l, r) ELSE <<>>)
             \o GeneralCases(a, l, r, slope)

\* the ends handed to rasterize_line: quarter-pixel positions
LineEndX == {q * (One \div 4) : q \in 0 .. 4 * MaxLineX}
LineEndY == {q * (One \div 4) : q \in 0 .. 4 * MaxLineY}
FirstDepth  == One \div 4
SecondDepth == 3 * (One \div 4)

InitRasterizeLine ==
    /\ pc = "rasterize_line"
    /\ flags \in {fl \in Flags : /\ fl.depth = "Always" /\ fl.blend = "Replace"
                                 /\ ~fl.depthWriteDisable /\ ~fl.colorWriteDisable
                                 /\ fl.interp = "Flat"}
    /\ va \in [fb_position : LineEndX \X LineEndY \X {FirstDepth},
               inv_w : {One}, attributes : FirstAttributes]
    /\ vb \in [fb_position : LineEndX \X LineEndY \X {SecondDepth},
               inv_w : {One}, attributes : SecondAttributes]
    /\ vc = NoVertex
    /\ min_t = 0 /\ max_t = 0
    /\ emitted = <<>>
    /\ rasterized = <<>>
    /\ undefined = FALSE
    /\ FragmentsIdle
    /\ RunIdle

\* one call of rasterize_line
RasterizeLineCall ==
    /\ pc = "rasterize_line"
    /\ pc' = "line_rasterized"
    /\ rasterized' = RasterizeLine(va, vb)
    /\ UNCHANGED <<flags, va, vb, vc, min_t, max_t, emitted, undefined>>
    /\ UNCHANGED fragVars
    /\ UNCHANGED runVars

NextRasterizeLine == RasterizeLineCall

SpecRasterizeLine == InitRasterizeLine /\ [][NextRasterizeLine]_vars

\* the floats next to the quarter-pixel positions: half an epsilon away
OffGridY ==
    {v \in {g + d : g \in LineEndY, d \in {-(FLT_EPSILON \div 2), FLT_EPSILON \div 2}} :
        v >= 0 /\ RoundRat(v, 1) = v}

\* lines from a quarter-pixel position to a position that may lie a float
\* off the quarter-pixel positions, so that slopes next to 1 and -1 occur
InitRasterizeLineOffGrid ==
    /\ pc = "rasterize_line"
    /\ flags \in {fl \in Flags : /\ fl.depth = "Always" /\ fl.blend = "Replace"
                                 /\ ~fl.depthWriteDisable /\ ~fl.colorWriteDisable
                                 /\ fl.interp = "Flat"}
    /\ va \in [fb_position : LineEndX \X LineEndY \X {FirstDepth},
               inv_w : {One}, attributes : FirstAttributes]
    /\ vb \in [fb_position : LineEndX \X (LineEndY \cup OffGridY) \X {SecondDepth},
               inv_w : {One}, attributes : SecondAttributes]
    /\ vc = NoVertex
    /\ min_t = 0 /\ max_t = 0
    /\ emitted = <<>>
    /\ rasterized = <<>>
    /\ undefined = FALSE
    /\ FragmentsIdle
    /\ RunIdle

SpecRasterizeLineOffGrid == InitRasterizeLineOffGrid /\ [][NextRasterizeLine]_vars

-----------------------------------------------------------------------------
(* Properties of rasterize_line (checked under SpecRasterizeLine)          *)

\* the pixels of the emitted fragments, in order
RasterizedPixels ==
    [i \in 1 .. Len(rasterized) |->
        <<FloorPx(rasterized[i].fb_position[1]), FloorPx(rasterized[i].fb_position[2])>>]
RasterizedPixelSet == {RasterizedPixels[i] : i \in 1 .. Len(rasterized)}

\* a coordinate of the line's ends in quarter pixels
Quarters(v) == v \div (One \div 4)

\* the point (px, py), in quarter pixels, lies in the diamond of pixel
\* (X, Y): strictly inside, or on its left or its bottom corner
InDiamond(px, py, X, Y) ==
    \/ Abs(px - (4 * X + 2)) + Abs(py - (4 * Y + 2)) < 2
    \/ (px = 4 * X /\ py = 4 * Y + 2)
    \/ (px = 4 * X + 2 /\ py = 4 * Y)

\* the segment from (ax, ay) to (bx, by) has a point in the diamond of
\* pixel (X, Y): the distance to the centre is smallest at an end, or where
\* the segment crosses the centre's column or row
SegmentMeetsDiamond(ax, ay, bx, by, X, Y) ==
    LET cx == 4 * X + 2
        cy == 4 * Y + 2
        dx == bx - ax
        dy == by - ay
        OnSegment(qx, qy) == /\ dx * (qy - ay) = dy * (qx - ax)
                             /\ Min(ax, bx) <= qx /\ qx <= Max(ax, bx)
                             /\ Min(ay, by) <= qy /\ qy <= Max(ay, by)
    IN  \/ InDiamond(ax, ay, X, Y)
        \/ InDiamond(bx, by, X, Y)
        \/ /\ dx # 0 /\ Min(ax, bx) <= cx /\ cx <= Max(ax, bx)
           /\ Abs((ay - cy) * dx + (cx - ax) * dy) < 2 * Abs(dx)
        \/ /\ dy # 0 /\ Min(ay, by) <= cy /\ cy <= Max(ay, by)
           /\ Abs((ax - cx) * dy + (cy - ay) * dx) < 2 * Abs(dy)
        \/ OnSegment(4 * X, cy)
        \/ OnSegment(cx, 4 * Y)

\* the segment from va to vb exits the diamond of pixel (X, Y)
ExitsDiamond(X, Y) ==
    LET ax == Quarters(va.fb_position[1])
        ay == Quarters(va.fb_position[2])
        bx == Quarters(vb.fb_position[1])
        by == Quarters(vb.fb_position[2])
    IN  SegmentMeetsDiamond(ax, ay, bx, by, X, Y) /\ ~InDiamond(bx, by, X, Y)

\* C14: rasterize_line emits a fragment for pixel (x, y) if and only if the
\* segment from va to vb exits the diamond of that pixel
C14_DiamondExitRule ==
    pc = "line_rasterized" =>
        RasterizedPixelSet =
            {p \in (-1 .. MaxLineX + 1) \X (-1 .. MaxLineY + 1) : ExitsDiamond(p[1], p[2])}

\* the ends of the line lie on pixel corners of one column, va below vb
OnBoundaryUpwards ==
    /\ va.fb_position[1] = vb.fb_position[1]
    /\ va.fb_position[1] = Px(FloorPx(va.fb_position[1]))
    /\ va.fb_position[2] = Px(FloorPx(va.fb_position[2]))
    /\ vb.fb_position[2] = Px(FloorPx(vb.fb_position[2]))
    /\ va.fb_position[2] < vb.fb_position[2]

\* C15: a vertical segment on a pixel boundary from (X, Y0) to (X, Y1), X,
\* Y0 < Y1 integers, emits the pixels (X, Y0), ..., (X, Y1 - 1), each once,
\* and no other pixel
C15_VerticalOnBoundary ==
    (pc = "line_rasterized" /\ OnBoundaryUpwards) =>
        LET X  == FloorPx(va.fb_position[1])
            Y0 == FloorPx(va.fb_position[2])
            Y1 == FloorPx(vb.fb_position[2])
        IN  /\ RasterizedPixelSet = {<<X, y>> : y \in Y0 .. Y1 - 1}
            /\ Len(rasterized) = Y1 - Y0

\* the segment (2.0, 1.0)-(2.0, 4.0) has emitted (2,1), (2,2), (2,3)
C15_Witness ==
    /\ pc = "line_rasterized"
    /\ va.fb_position[1] = Px(2) /\ va.fb_position[2] = Px(1)
    /\ vb.fb_position[1] = Px(2) /\ vb.fb_position[2] = Px(4)
    /\ RasterizedPixels = << <<2, 1>>, <<2, 2>>, <<2, 3>> >>

\* twice the position of a fragment's pixel centre along the segment from
\* va to vb: its scalar product with vb - va, in quarter pixels
AlongSegment(f) ==
    LET ax == Quarters(va.fb_position[1])
        ay == Quarters(va.fb_position[2])
        bx == Quarters(vb.fb_position[1])
        by == Quarters(vb.fb_position[2])
    IN  (Quarters(f.fb_position[1]) - ax) * (bx - ax)
        + (Quarters(f.fb_position[2]) - ay) * (by - ay)

\* the rounding allowed to an interpolated depth
DepthTolerance == 16 * Ulp(One)

\* C16: the depth of every emitted fragment is (1-t)*va.z + t*vb.z for the
\* location t in [0,1] of its pixel centre along the segment, so every depth
\* lies between va.z and vb.z, and of two fragments the one further along
\* the segment towards vb has the depth nearer to vb.z
C16_DepthInterpolatedAlongSegment ==
    pc = "line_rasterized" =>
        \A i, j \in 1 .. Len(rasterized) :
            /\ rasterized[i].fb_position[3] >= va.fb_position[3] - DepthTolerance
            /\ rasterized[i].fb_position[3] <= vb.fb_position[3] + DepthTolerance
            /\ AlongSegment(rasterized[i]) < AlongSegment(rasterized[j]) =>
                   rasterized[i].fb_position[3]
                       <= rasterized[j].fb_position[3] + DepthTolerance

\* C25 (checked under SpecRasterizeLineOffGrid): a single rasterize_line
\* call never emits two fragments for the same pixel, in any case of the
\* algorithm, also after the slope -1 case, which does not return
C25_NoPixelTwice ==
    pc = "line_rasterized" =>
        \A i, j \in 1 .. Len(rasterized) :
            i # j => RasterizedPixels[i] # RasterizedPixels[j]

-----------------------------------------------------------------------------
(* Pipeline::rasterize_triangle                                            *)

\* lines 754-782: the positions <<a, b, c>> the flat branch works on: a is
\* the strictly leftmost of vb and vc, else va; b is the higher of the others
ReorderVertices(ta, tb, tc) ==
    IF tb[1] < tc[1] /\ tb[1] < ta[1]
    THEN IF ta[2] >= tc[2] THEN <<tb, ta, tc>> ELSE <<tb, tc, ta>>
    ELSE IF tc[1] < tb[1] /\ tc[1] < ta[1]
    THEN IF ta[2] >= tb[2] THEN <<tc, ta, tb>> ELSE <<tc, tb, ta>>
    ELSE IF tc[2] >= tb[2] THEN <<ta, tc, tb>> ELSE <<ta, tb, tc>>

\* the float (by - cy) * (ax - cx) + (cx - bx) * (ay - cy) that lambda_1 and
\* lambda_2 are divided by
LambdaDenominator(a, b, c) ==
    FAdd(FMul(FSub(b[2], c[2]), FSub(a[1], c[1])),
         FMul(FSub(c[1], b[1]), FSub(a[2], c[2])))

\* the depth a division by a zero LambdaDenominator leaves: not a number,
\* here a value that no float operation yields
NaN == -Pow2(30)

\* line 991: the depth from the two lambdas, in float
LambdaDepth(lambda_1, lambda_2, a, b, c) ==
    FAdd(FAdd(FMul(lambda_1, a[3]), FMul(lambda_2, b[3])),
         FMul(FSub(FSub(One, lambda_1), lambda_2), c[3]))

\* lines 989-991 for the denominator den: the numerators of the lambdas in
\* double precision, the quotients stored in floats
LambdasOver(den, a, b, c, x, y) ==
    IF den = 0
    THEN NaN
    ELSE LambdaDepth(RoundRat(FSub(b[2], c[2]) * (Px(x) + Half - c[1])
                              + FSub(c[1], b[1]) * (Px(y) + Half - c[2]), den),
                     RoundRat(FSub(c[2], a[2]) * (Px(x) + Half - c[1])
                              + FSub(a[1], c[1]) * (Px(y) + Half - c[2]), den),
                     a, b, c)

\* interpolate_z at pixel (x, y), lines 989-991
TriangleInterpolateZ(a, b, c, x, y) ==
    LambdasOver(LambdaDenominator(a, b, c), a, b, c, x, y)

\* the first row of a column: floor(y_min - 0.5) + 1 when the rows satisfy
\* y_min < y + 0.5, and floor(0.5 - y_min) * (-1) when y_min <= y + 0.5;
\* single selects the float literal 0.5f
FirstRow(y_min, closed, single) ==
    IF closed
    THEN -FloorPx(IF single THEN FSub(Half, y_min) ELSE Half - y_min)
    ELSE FloorPx(IF single THEN FSub(y_min, Half) ELSE y_min - Half) + 1

\* the last row of a column: floor(y_max - 0.5) when the rows satisfy
\* y + 0.5 <= y_max, and floor(0.5 - y_max) * (-1) - 1 when y + 0.5 < y_max
LastRow(y_max, closed, single) ==
    IF closed
    THEN FloorPx(IF single THEN FSub(y_max, Half) ELSE y_max - Half)
    ELSE -FloorPx(IF single THEN FSub(Half, y_max) ELSE Half - y_max) - 1

\* one of the loops over x, e.g. lines 987-1000: the pixels <<x, y>> it
\* emits, and the x, y_min and y_max it ends with
RECURSIVE Sweep(_, _, _, _, _, _, _, _, _)
Sweep(x, limit, y_min, y_max, slope_min, slope_max, loClosed, hiClosed, single) ==
    IF Px(x) > limit
    THEN [pixels |-> <<>>, x |-> x, y_min |-> y_min, y_max |-> y_max]
    ELSE LET first == FirstRow(y_min, loClosed, single)
             last  == LastRow(y_max, hiClosed, single)
             rest  == Sweep(x + 1, limit, FAdd(y_min, slope_min), FAdd(y_max, slope_max),
                            slope_min, slope_max, loClosed, hiClosed, single)
         IN  [rest EXCEPT !.pixels =
                 [i \in 1 .. Max(0, last - first + 1) |-> <<x, first + i - 1>>]
                 \o rest.pixels]

\* y + slope * (std::floor(x) + 0.5 - x), in double precision, stored in a float
AtColumnCentre(y, slope, x) ==
    RoundRat(y * One + slope * (Px(FloorPx(x)) + Half - x), One)

\* lines 798-846 for the slopes of lines 789-796: the sweep from the column
\* of a and b to c
CornerSweepAB(a, b, c, slope_low, slope_high) ==
    Sweep(FloorPx(a[1]), c[1],
          IF a[2] > b[2] THEN AtColumnCentre(b[2], slope_low, b[1])
                         ELSE AtColumnCentre(a[2], slope_high, a[1]),
          IF a[2] > b[2] THEN AtColumnCentre(a[2], slope_high, a[1])
                         ELSE AtColumnCentre(b[2], slope_low, b[1]),
          slope_low, slope_high,
          slope_high < 0 /\ slope_low < 0, slope_high >= 0, TRUE).pixels

\* lines 787-847, a and b in one column: the pixels emitted
CornerCaseAB(a, b, c) ==
    LET sa == FDiv(FSub(a[2], c[2]), FSub(a[1], c[1]))
        sb == FDiv(FSub(b[2], c[2]), FSub(b[1], c[1]))
    IN  CornerSweepAB(a, b, c, IF a[2] > b[2] THEN sb ELSE sa,
                               IF a[2] > b[2] THEN sa ELSE sb)

\* lines 859-907 for the slopes of lines 850-857: the sweep from the column
\* of a and c to b
CornerSweepAC(a, b, c, slope_low, slope_high) ==
    Sweep(FloorPx(a[1]), b[1],
          IF a[2] > c[2] THEN AtColumnCentre(c[2], slope_low, c[1])
                         ELSE AtColumnCentre(a[2], slope_high, a[1]),
          IF a[2] > c[2] THEN AtColumnCentre(a[2], slope_high, a[1])
                         ELSE AtColumnCentre(c[2], slope_low, c[1]),
          slope_low, slope_high,
          slope_high < 0 /\ slope_low < 0, slope_high >= 0, TRUE).pixels

\* lines 848-908, a and c in one column: the pixels emitted
CornerCaseAC(a, b, c) ==
    CornerSweepAC(a, b, c,
        IF a[2] > c[2] THEN FDiv(FSub(c[2], b[2]), FSub(c[1], b[1]))
                       ELSE FDiv(FSub(a[2], b[2]), FSub(a[1], b[1])),
        IF a[2] > c[2] THEN FDiv(FSub(a[2], b[2]), FSub(a[1], b[1]))
                       ELSE FDiv(FSub(b[2], c[2]), FSub(b[1], c[1])))

\* lines 913-965 for the slopes of lines 911-912: the sweep from a to the
\* column of b and c
CornerSweepBC(a, b, slope_low, slope_high) ==
    Sweep(FloorPx(a[1]), b[1],
          AtColumnCentre(a[2], slope_low, a[1]),
          AtColumnCentre(a[2], slope_high, a[1]),
          slope_low, slope_high,
          slope_low < 0, slope_low >= 0 \/ slope_high >= 0, TRUE).pixels

\* lines 909-966, b and c in one column: the pixels emitted
CornerCaseBC(a, b, c) ==
    CornerSweepBC(a, b, FDiv(FSub(c[2], a[2]), FSub(c[1], a[1])),
                        FDiv(FSub(b[2], a[2]), FSub(b[1], a[1])))

\* lines 979-1033: the sweep from a to the nearer of b and c
FirstSweep(a, b, c, slope_low, slope_high) ==
    Sweep(FloorPx(a[1]), Min(b[1], c[1]),
          AtColumnCentre(a[2], slope_low, a[1]),
          AtColumnCentre(a[2], slope_high, a[1]),
          slope_low, slope_high,
          slope_low < 0, slope_low >= 0 \/ slope_high > 0, TRUE)

\* lines 1035-1122: the sweep to the farther of b and c, from the x, y_min
\* and y_max the first sweep ended with; the pixels of both sweeps
SecondSweep(first, x_max, slope_low, slope_high, slope_other) ==
    LET y_max == FSub(first.y_max, slope_high)
        y_min == FSub(first.y_min, slope_low)
    IN  first.pixels \o
        (IF slope_other > 0
         THEN Sweep(first.x, x_max, FAdd(y_min, slope_other), FAdd(y_max, slope_high),
                    slope_other, slope_high, FALSE, TRUE, FALSE)
         ELSE IF slope_other < 0
         THEN Sweep(first.x, x_max, FAdd(y_min, slope_low), FAdd(y_max, slope_other),
                    slope_low, slope_other, FALSE, TRUE, FALSE)
         ELSE IF slope_high < 0
         THEN Sweep(first.x, x_max, y_min, FAdd(y_max, slope_high),
                    0, slope_high, TRUE, TRUE, FALSE)
         ELSE Sweep(first.x, x_max, FAdd(y_min, slope_low), y_max,
                    slope_low, 0, FALSE, TRUE, FALSE)).pixels

\* lines 979-1122 for the slopes of lines 972-977
SweepsWithSlopes(a, b, c, slope_low, slope_high) ==
    SecondSweep(FirstSweep(a, b, c, slope_low, slope_high), Max(b[1], c[1]),
                slope_low, slope_high,
                FDiv(FSub(b[2], c[2]), FSub(b[1], c[1])))

\* lines 970-1125, three different columns: the sweep from a to the nearer
\* of b and c, then the sweep to the farther one
GeneralSweeps(a, b, c) ==
    SweepsWithSlopes(a, b, c,
        Min(FDiv(FSub(b[2], a[2]), FSub(b[1], a[1])),
            FDiv(FSub(c[2], a[2]), FSub(c[1], a[1]))),
        Max(FDiv(FSub(b[2], a[2]), FSub(b[1], a[1])),
            FDiv(FSub(c[2], a[2]), FSub(c[1], a[1]))))

\* lines 791 and 794: in the first corner case a slope is divided by
\* ax - cx or bx - cx, which is zero when c lies in the column of a and b
SlopeDivisionByZero(ta, tb, tc) ==
    LET abc == ReorderVertices(ta.fb_position, tb.fb_position, tc.fb_position)
    IN  /\ Abs(FSub(abc[1][1], abc[2][1])) < FLT_EPSILON
        /\ (FSub(abc[1][1], abc[3][1]) = 0 \/ FSub(abc[2][1], abc[3][1]) = 0)

\* lines 785-970: the pixels <<x, y>> emitted for the reordered positions
FlatPixels(a, b, c) ==
    IF Abs(FSub(a[1], b[1])) < FLT_EPSILON THEN CornerCaseAB(a, b, c)
    ELSE IF Abs(FSub(a[1], c[1])) < FLT_EPSILON THEN CornerCaseAC(a, b, c)
    ELSE IF Abs(FSub(b[1], c[1])) < FLT_EPSILON THEN CornerCaseBC(a, b, c)
    ELSE GeneralSweeps(a, b, c)

\* the fragments emitted at the pixels, e.g. lines 993-998: the depth is
\* interpolated, attributes are those of va, derivatives are zero
FlatFragments(ta, a, b, c, pixels) ==
    [i \in 1 .. Len(pixels) |->
        PointAtPixel(ta, pixels[i][1], pixels[i][2],
                     TriangleInterpolateZ(a, b, c, pixels[i][1], pixels[i][2]))]

\* the reordered positions the fragments are emitted for
FlatReordered(ta, abc) ==
    FlatFragments(ta, abc[1], abc[2], abc[3], FlatPixels(abc[1], abc[2], abc[3]))

\* the flat branch, lines 747-1126: the fragments emitted for the triangle
FlatTriangle(ta, tb, tc) ==
    FlatReordered(ta, ReorderVertices(ta.fb_position, tb.fb_position, tc.fb_position))

\* rasterize_triangle, lines 739-1142: the smooth branch calls the flat
\* one, and the correct branch the smooth one, so that every value of
\* interp yields the fragments of the flat branch
RasterizeTriangle(interp, ta, tb, tc) ==
    IF interp \in {"Flat", "Smooth", "Correct"}
    THEN FlatTriangle(ta, tb, tc)
    ELSE <<>>

\* the corners handed to rasterize_triangle: pixel corners of the square
\* [0, MaxCorner] x [0, MaxCorner], each vertex with a depth of its own
TriangleCorners == {<<Px(x), Px(y)>> : x \in 0 .. MaxCorner, y \in 0 .. MaxCorner}
ThirdDepth == One \div 2
ClippedAt(p, z, attributes) ==
    [fb_position |-> <<p[1], p[2], z>>, inv_w |-> One, attributes |-> attributes]

InitRasterizeTriangle ==
    /\ pc = "rasterize_triangle"
    /\ flags \in {fl \in Flags : /\ fl.depth = "Always" /\ fl.blend = "Replace"
                                 /\ ~fl.depthWriteDisable /\ ~fl.colorWriteDisable}
    /\ va \in {ClippedAt(p, FirstDepth, at) : p \in TriangleCorners, at \in FirstAttributes}
    /\ vb \in {ClippedAt(p, ThirdDepth, at) : p \in TriangleCorners, at \in SecondAttributes}
    /\ vc \in {ClippedAt(p, SecondDepth, at) : p \in TriangleCorners, at \in SecondAttributes}
    /\ min_t = 0 /\ max_t = 0
    /\ emitted = <<>>
    /\ rasterized = <<>>
    /\ undefined = FALSE
    /\ FragmentsIdle
    /\ RunIdle

\* what a call with first vertex ta may emit after the conversion of an
\* infinite or undefined y_min to int: nothing, or fragments of the column
\* of ta without a depth, the same position once or over and over
UndefinedFragments(ta) ==
    {<<>>}
    \cup {<<PointAtPixel(ta, FloorPx(ta.fb_position[1]), y, NaN)>> : y \in -1 .. MaxCorner}
    \cup {<<PointAtPixel(ta, FloorPx(ta.fb_position[1]), y, NaN),
            PointAtPixel(ta, FloorPx(ta.fb_position[1]), y, NaN)>> : y \in -1 .. MaxCorner}

\* the outcomes of the call rasterize_triangle(va, vb, vc)
UndefinedOutcomes == UndefinedFragments(va)

\* one call of rasterize_triangle
RasterizeTriangleCall ==
    /\ pc = "rasterize_triangle"
    /\ pc' = "triangle_rasterized"
    /\ IF SlopeDivisionByZero(va, vb, vc)
       THEN /\ undefined' = TRUE
            /\ rasterized' \in UndefinedOutcomes
       ELSE /\ rasterized' = RasterizeTriangle(flags.interp, va, vb, vc)
            /\ undefined' = \E i \in 1 .. Len(rasterized') :
                                rasterized'[i].fb_position[3] = NaN
    /\ UNCHANGED <<flags, va, vb, vc, min_t, max_t, emitted>>
    /\ UNCHANGED fragVars
    /\ UNCHANGED runVars

NextRasterizeTriangle == RasterizeTriangleCall

SpecRasterizeTriangle == InitRasterizeTriangle /\ [][NextRasterizeTriangle]_vars

\* triangles for the smooth and the correct branch: the three vertices
\* differ in inv_w (w = 1, 2 and 4) and in the value of their attribute
ThirdAttributes == {<<5 * One>>}
WithInvW(v, inv_w) == [v EXCEPT !.inv_w = inv_w]

InitInterpolateTriangle ==
    /\ pc = "rasterize_triangle"
    /\ flags \in {fl \in Flags : /\ fl.depth = "Always" /\ fl.blend = "Replace"
                                 /\ ~fl.depthWriteDisable /\ ~fl.colorWriteDisable
                                 /\ fl.interp \in {"Smooth", "Correct"}}
    /\ va \in {WithInvW(ClippedAt(p, FirstDepth, at), One) :
                  p \in TriangleCorners, at \in FirstAttributes}
    /\ vb \in {WithInvW(ClippedAt(p, ThirdDepth, at), One \div 2) :
                  p \in TriangleCorners, at \in SecondAttributes}
    /\ vc \in {WithInvW(ClippedAt(p, SecondDepth, at), One \div 4) :
                  p \in TriangleCorners, at \in ThirdAttributes}
    /\ min_t = 0 /\ max_t = 0
    /\ emitted = <<>>
    /\ rasterized = <<>>
    /\ undefined = FALSE
    /\ FragmentsIdle
    /\ RunIdle

SpecInterpolateTriangle == InitInterpolateTriangle /\ [][NextRasterizeTriangle]_vars

-----------------------------------------------------------------------------
(* Properties of rasterize_triangle (checked under SpecRasterizeTriangle)  *)

\* a corner of the triangle and the centre of a pixel, in half pixels
CornerOf(v) == <<2 * FloorPx(v.fb_position[1]), 2 * FloorPx(v.fb_position[2])>>
CentreOf(px) == <<2 * px[1] + 1, 2 * px[2] + 1>>

\* twice the signed area of the triangle (o, p, q)
Orient(o, p, q) == (p[1] - o[1]) * (q[2] - o[2]) - (p[2] - o[2]) * (q[1] - o[1])

Sign(n) == IF n < 0 THEN -1 ELSE IF n > 0 THEN 1 ELSE 0

NonDegenerate(a, b, c) == Orient(a, b, c) # 0

\* the point p lies strictly inside, or strictly outside, the triangle
StrictlyInside(a, b, c, p) ==
    /\ NonDegenerate(a, b, c)
    /\ Sign(Orient(a, b, p)) = Sign(Orient(a, b, c))
    /\ Sign(Orient(b, c, p)) = Sign(Orient(a, b, c))
    /\ Sign(Orient(c, a, p)) = Sign(Orient(a, b, c))
StrictlyOutside(a, b, c, p) ==
    \/ Sign(Orient(a, b, p)) = -Sign(Orient(a, b, c))
    \/ Sign(Orient(b, c, p)) = -Sign(Orient(a, b, c))
    \/ Sign(Orient(c, a, p)) = -Sign(Orient(a, b, c))

\* the pixels of a sequence of fragments
PixelsOf(frags) ==
    {<<FloorPx(frags[i].fb_position[1]), FloorPx(frags[i].fb_position[2])>> :
        i \in 1 .. Len(frags)}

\* the pixels whose centres can lie in a triangle, and a margin around them
NearbyPixels == (-1 .. MaxCorner) \X (-1 .. MaxCorner)

\* the depth of fragment f is the barycentric interpolation of the three
\* depths at its pixel centre, up to DepthTolerance
BarycentricDepth(f) ==
    LET a  == CornerOf(va)
        b  == CornerOf(vb)
        c  == CornerOf(vc)
        p  == CentreOf(<<FloorPx(f.fb_position[1]), FloorPx(f.fb_position[2])>>)
    IN  /\ NonDegenerate(a, b, c)
        /\ Abs(f.fb_position[3] * Orient(a, b, c)
               - (Orient(p, b, c) * va.fb_position[3]
                  + Orient(a, p, c) * vb.fb_position[3]
                  + Orient(a, b, p) * vc.fb_position[3]))
             <= DepthTolerance * Abs(Orient(a, b, c))

\* C17: every fragment emitted by rasterize_triangle carries the attributes
\* of va, derivatives (0,0), a position (x+0.5, y+0.5) with integers x, y,
\* and the barycentric interpolation of the three depths at that position
C17_FlatFragments ==
    pc = "triangle_rasterized" =>
        \A i \in 1 .. Len(rasterized) :
            LET f == rasterized[i]
            IN  /\ f.attributes = va.attributes
                /\ f.derivatives = <<0, 0>>
                /\ f.fb_position[1] = Px(FloorPx(f.fb_position[1])) + Half
                /\ f.fb_position[2] = Px(FloorPx(f.fb_position[2])) + Half
                /\ BarycentricDepth(f)

\* the corner d makes with vb and vc a triangle on the other side of the
\* edge from vb to vc
OppositeCorner(d) ==
    /\ NonDegenerate(CornerOf(va), CornerOf(vb), CornerOf(vc))
    /\ Sign(Orient(CornerOf(vb), CornerOf(vc), <<2 * d[1], 2 * d[2]>>))
          = -Sign(Orient(CornerOf(vb), CornerOf(vc), CornerOf(va)))

\* the point p lies on the edge from b to c
OnEdge(b, c, p) ==
    /\ Orient(b, c, p) = 0
    /\ Min(b[1], c[1]) <= p[1] /\ p[1] <= Max(b[1], c[1])
    /\ Min(b[2], c[2]) <= p[2] /\ p[2] <= Max(b[2], c[2])

\* C18: two non-degenerate triangles on opposite sides of a shared edge
\* emit disjoint sets of pixels, whose union contains every pixel with its
\* centre inside the combined shape or on the shared edge
C18_SharedEdgePartition ==
    pc = "triangle_rasterized" =>
        \A x, y \in 0 .. MaxCorner :
            OppositeCorner(<<x, y>>) =>
                LET d     == ClippedAt(<<Px(x), Px(y)>>, FirstDepth, va.attributes)
                    other == PixelsOf(RasterizeTriangle(flags.interp, vc, vb, d))
                    mine  == PixelsOf(rasterized)
                IN  /\ mine \cap other = {}
                    /\ \A px \in NearbyPixels :
                           (\/ StrictlyInside(CornerOf(va), CornerOf(vb), CornerOf(vc),
                                              CentreOf(px))
                            \/ StrictlyInside(CornerOf(d), CornerOf(vb), CornerOf(vc),
                                              CentreOf(px))
                            \/ OnEdge(CornerOf(vb), CornerOf(vc), CentreOf(px)))
                           => px \in mine \cup other

\* C19: for a non-degenerate triangle every pixel with its centre strictly
\* inside is emitted, and no pixel with its centre strictly outside
C19_Coverage ==
    (pc = "triangle_rasterized"
       /\ NonDegenerate(CornerOf(va), CornerOf(vb), CornerOf(vc))) =>
        /\ \A px \in NearbyPixels :
               StrictlyInside(CornerOf(va), CornerOf(vb), CornerOf(vc), CentreOf(px))
               => px \in PixelsOf(rasterized)
        /\ \A px \in PixelsOf(rasterized) :
               ~StrictlyOutside(CornerOf(va), CornerOf(vb), CornerOf(vc), CentreOf(px))

\* C20: a degenerate triangle emits no fragment, and the call evaluates no
\* division by zero
C20_DegenerateTriangles ==
    (pc = "triangle_rasterized"
       /\ ~NonDegenerate(CornerOf(va), CornerOf(vb), CornerOf(vc))) =>
        /\ rasterized = <<>>
        /\ ~undefined

\* the pixel of fragment f, and whether its centre lies strictly inside
\* the triangle (va, vb, vc)
FragmentPixel(f) == <<FloorPx(f.fb_position[1]), FloorPx(f.fb_position[2])>>
AtInteriorPixel(f) ==
    StrictlyInside(CornerOf(va), CornerOf(vb), CornerOf(vc), CentreOf(FragmentPixel(f)))

\* the attribute of fragment f is the barycentric combination of the three
\* vertices' attribute values at its pixel centre, up to DepthTolerance
BarycentricAttribute(f) ==
    LET a  == CornerOf(va)
        b  == CornerOf(vb)
        c  == CornerOf(vc)
        p  == CentreOf(FragmentPixel(f))
    IN  Abs(f.attributes[1] * Orient(a, b, c)
            - (Orient(p, b, c) * va.attributes[1]
               + Orient(a, p, c) * vb.attributes[1]
               + Orient(a, b, p) * vc.attributes[1]))
          <= DepthTolerance * Abs(Orient(a, b, c))

\* C21 (checked under SpecInterpolateTriangle): for a triangle whose
\* vertices differ in inv_w and in an attribute, the fragment emitted at an
\* interior pixel in Smooth mode carries the barycentric combination of the
\* three attribute values, and the fragment emitted at the same pixel in
\* Correct mode carries a different value
C21_CorrectDiffersFromSmooth ==
    (pc = "triangle_rasterized" /\ flags.interp = "Smooth") =>
        \A i \in 1 .. Len(rasterized) :
            AtInteriorPixel(rasterized[i]) =>
                /\ BarycentricAttribute(rasterized[i])
                /\ LET correct == RasterizeTriangle("Correct", va, vb, vc)
                   IN  \A j \in 1 .. Len(correct) :
                          FragmentPixel(correct[j]) = FragmentPixel(rasterized[i]) =>
                              correct[j].attributes # rasterized[i].attributes

\* the pixels of the fragments a rasterize_triangle call emitted, in order
TrianglePixels ==
    [i \in 1 .. Len(rasterized) |->
        <<FloorPx(rasterized[i].fb_position[1]), FloorPx(rasterized[i].fb_position[2])>>]

\* C26: a single rasterize_triangle call never emits two fragments for the
\* same pixel; the first and the second column sweep never both emit a
\* fragment in the same column and row
C26_NoPixelTwiceInTriangle ==
    pc = "triangle_rasterized" =>
        \A i, j \in 1 .. Len(rasterized) :
            i # j => TrianglePixels[i] # TrianglePixels[j]

-----------------------------------------------------------------------------
(* Pipeline::run from the vertex list to the out-of-range warning          *)

\* Program::shade_vertex of a program that passes its attributes through:
\* attributes = <<x, y, z, w, r, g, b, opacity>>
ShadeVertex(attributes) ==
    [clip_position |-> SubSeq(attributes, 1, 4), attributes |-> SubSeq(attributes, 5, 8)]

\* run, lines 56-65
clip_to_fb_scale == <<(Width * One) \div 2, (Height * One) \div 2, Half>>
clip_to_fb_offset == <<FMul(Half, Width * One), FMul(Half, Height * One), Half>>

\* the lambda emit_vertex for the inverse inv_w of w, 71-73
EmitVertexWith(sv, inv_w) ==
    [fb_position |->
        [k \in 1 .. 3 |-> FAdd(FMul(FMul(clip_to_fb_scale[k], inv_w), sv.clip_position[k]),
                               clip_to_fb_offset[k])],
     inv_w |-> inv_w,
     attributes |-> sv.attributes]

\* the lambda emit_vertex of run, lines 68-75: the clipped vertex appended;
\* the division by w = 0 leaves no finite inv_w and no finite position
EmitVertex(sv) ==
    IF sv.clip_position[4] = 0
    THEN [fb_position |-> <<NaN, NaN, NaN>>, inv_w |-> NaN, attributes |-> sv.attributes]
    ELSE EmitVertexWith(sv, FDiv(One, sv.clip_position[4]))

EmitVertices(svs) == [k \in 1 .. Len(svs) |-> EmitVertex(svs[k])]

\* clip_triangle, lines 306-314: the vertices the call emits
ClipTriangleEmits(a, b, c) == <<a, b, c>>

\* a clipped vertex whose position is not finite
NotFinite(cv) == cv.inv_w = NaN

\* the fragment as the fragment loop reads it: the position in half pixels
LoopFragment(f) ==
    [x |-> f.fb_position[1] \div Half, y |-> f.fb_position[2] \div Half,
     z |-> f.fb_position[3], attributes |-> f.attributes]

\* the vertices handed to run: the centre of the clip volume, a point of
\* the plane x = w, a point beyond that plane, and a point with w = 2 on the
\* plane y = -w
RunVertices ==
    {[attributes |-> <<0, 0, 0, One, One, 0, 0, 2>>],
     [attributes |-> <<One, Half, 0, One, 0, One, 0, 2>>],
     [attributes |-> <<2 * One, One, 0, One, 0, 0, One, 2>>],
     [attributes |-> <<-One, -2 * One, 0, 2 * One, One, One, 0, 1>>]}

InitRun ==
    /\ pc = "shade"
    /\ flags \in {fl \in Flags : /\ fl.depth = "Always" /\ fl.blend = "Replace"
                                 /\ ~fl.depthWriteDisable /\ ~fl.colorWriteDisable
                                 /\ fl.interp = "Flat"}
    /\ primitive_type \in {"Lines", "Triangles"}
    /\ vertices \in UNION {[1 .. n -> RunVertices] : n \in 0 .. MaxVertices}
    /\ shaded_vertices = <<>>
    /\ clipped_vertices = <<>>
    /\ clip_calls = <<>>
    /\ loop_i = 0
    /\ ClipIdle
    /\ FragmentsIdle

\* run, lines 32-36: one iteration of the loop over the vertices
RunShadeVertex ==
    /\ pc = "shade"
    /\ Len(shaded_vertices) < Len(vertices)
    /\ shaded_vertices' =
          Append(shaded_vertices, ShadeVertex(vertices[Len(shaded_vertices) + 1].attributes))
    /\ UNCHANGED <<pc, flags, fragVars, clipVars, rasterVars, primitive_type, vertices,
                   clipped_vertices, clip_calls, loop_i>>

\* run, lines 36-79: the loop over the vertices is over
RunShadeDone ==
    /\ pc = "shade"
    /\ Len(shaded_vertices) = Len(vertices)
    /\ pc' = "clip"
    /\ loop_i' = 0
    /\ UNCHANGED <<flags, fragVars, clipVars, rasterVars, primitive_type, vertices,
                   shaded_vertices, clipped_vertices, clip_calls>>

\* RunClipLine with the loop index advancing by one
RunClipLineSlidingPairs ==
    /\ pc = "clip"
    /\ primitive_type = "Lines"
    /\ loop_i + 1 < Len(shaded_vertices)
    /\ clip_calls' = Append(clip_calls, <<loop_i, loop_i + 1>>)
    /\ clipped_vertices' = clipped_vertices \o
          EmitVertices(ClipLineEmits(flags, shaded_vertices[loop_i + 1],
                                     shaded_vertices[loop_i + 2]))
    /\ undefined' = (undefined \/ \E k \in 1 .. Len(clipped_vertices') :
                                     NotFinite(clipped_vertices'[k]))
    /\ loop_i' = loop_i + 1
    /\ UNCHANGED <<pc, flags, fragVars, clipVars, rasterized, primitive_type, vertices,
                   shaded_vertices>>

\* run, lines 79-81: one iteration of the clipping loop of a Lines pipeline
RunClipLine ==
    /\ pc = "clip"
    /\ primitive_type = "Lines"
    /\ loop_i + 1 < Len(shaded_vertices)
    /\ clip_calls' = Append(clip_calls, <<loop_i, loop_i + 1>>)
    /\ clipped_vertices' = clipped_vertices \o
          EmitVertices(ClipLineEmits(flags, shaded_vertices[loop_i + 1],
                                     shaded_vertices[loop_i + 2]))
    /\ undefined' = (undefined \/ \E k \in 1 .. Len(clipped_vertices') :
                                     NotFinite(clipped_vertices'[k]))
    /\ loop_i' = loop_i + 2
    /\ UNCHANGED <<pc, flags, fragVars, clipVars, rasterized, primitive_type, vertices,
                   shaded_vertices>>

\* run, lines 83-85: one iteration of the clipping loop of a Triangles pipeline
RunClipTriangle ==
    /\ pc = "clip"
    /\ primitive_type = "Triangles"
    /\ loop_i + 2 < Len(shaded_vertices)
    /\ clip_calls' = Append(clip_calls, <<loop_i, loop_i + 1, loop_i + 2>>)
    /\ clipped_vertices' = clipped_vertices \o
          EmitVertices(ClipTriangleEmits(shaded_vertices[loop_i + 1],
                                         shaded_vertices[loop_i + 2],
                                         shaded_vertices[loop_i + 3]))
    /\ undefined' = (undefined \/ \E k \in 1 .. Len(clipped_vertices') :
                                     NotFinite(clipped_vertices'[k]))
    /\ loop_i' = loop_i + 3
    /\ UNCHANGED <<pc, flags, fragVars, clipVars, rasterized, primitive_type, vertices,
                   shaded_vertices>>

\* the condition of the loops at lines 79 and 83, and at lines 100 and 104,
\* over the vector vs
LoopGoesOn(vs) ==
    IF primitive_type = "Lines" THEN loop_i + 1 < Len(vs) ELSE loop_i + 2 < Len(vs)

\* run, lines 79-100: the clipping loop is over
RunClipDone ==
    /\ pc = "clip"
    /\ ~LoopGoesOn(shaded_vertices)
    /\ pc' = "rasterize"
    /\ loop_i' = 0
    /\ UNCHANGED <<flags, fragVars, clipVars, rasterVars, primitive_type, vertices,
                   shaded_vertices, clipped_vertices, clip_calls>>

\* run, lines 100-102: one iteration of the rasterization loop of a Lines
\* pipeline; rasterize_line emits nothing for a position that is not finite
RunRasterizeLine ==
    /\ pc = "rasterize"
    /\ primitive_type = "Lines"
    /\ loop_i + 1 < Len(clipped_vertices)
    /\ IF NotFinite(clipped_vertices[loop_i + 1]) \/ NotFinite(clipped_vertices[loop_i + 2])
       THEN /\ rasterized' = rasterized
            /\ undefined' = TRUE
       ELSE /\ rasterized' = rasterized \o RasterizeLine(clipped_vertices[loop_i + 1],
                                                        clipped_vertices[loop_i + 2])
            /\ UNCHANGED undefined
    /\ loop_i' = loop_i + 2
    /\ UNCHANGED <<pc, flags, fragVars, clipVars, primitive_type, vertices,
                   shaded_vertices, clipped_vertices, clip_calls>>

\* run, lines 104-106: one iteration of the rasterization loop of a
\* Triangles pipeline
RunRasterizeTriangle ==
    /\ pc = "rasterize"
    /\ primitive_type = "Triangles"
    /\ loop_i + 2 < Len(clipped_vertices)
    /\ IF \E k \in 1 .. 3 : NotFinite(clipped_vertices[loop_i + k])
       THEN /\ rasterized' = rasterized
            /\ undefined' = TRUE
       ELSE IF SlopeDivisionByZero(clipped_vertices[loop_i + 1], clipped_vertices[loop_i + 2],
                                   clipped_vertices[loop_i + 3])
       THEN /\ undefined' = TRUE
            /\ \E o \in UndefinedFragments(clipped_vertices[loop_i + 1]) :
                  rasterized' = rasterized \o o
       ELSE /\ rasterized' = rasterized \o
                  RasterizeTriangle(flags.interp, clipped_vertices[loop_i + 1],
                                    clipped_vertices[loop_i + 2], clipped_vertices[loop_i + 3])
            /\ undefined' = (undefined \/ \E k \in 1 .. Len(rasterized') :
                                             rasterized'[k].fb_position[3] = NaN)
    /\ loop_i' = loop_i + 3
    /\ UNCHANGED <<pc, flags, fragVars, clipVars, primitive_type, vertices,
                   shaded_vertices, clipped_vertices, clip_calls>>

\* run, lines 100-115: the rasterization loop is over
RunRasterizeDone ==
    /\ pc = "rasterize"
    /\ ~LoopGoesOn(clipped_vertices)
    /\ pc' = "loop"
    /\ UNCHANGED <<flags, fragVars, clipVars, rasterVars, runVars>>

\* run, lines 115-177: one iteration of the fragment loop over the fragments
\* the rasterization emitted
RunFragment ==
    /\ pc = "loop"
    /\ Len(fragments) < Len(rasterized)
    /\ LoopBody(LoopFragment(rasterized[Len(fragments) + 1]))
    /\ UNCHANGED <<pc, flags, fb_depth0, fb_color0, warned>>
    /\ UNCHANGED <<clipVars, rasterVars, runVars>>

\* run, lines 178-189: the fragment loop is over; warn iff fragments were
\* out of range
RunFinish ==
    /\ pc = "loop"
    /\ Len(fragments) = Len(rasterized)
    /\ pc' = "finished"
    /\ warned' = (out_of_range > 0)
    /\ UNCHANGED <<flags, fb_depth, fb_color, fb_depth0, fb_color0, fragments,
                   out_of_range, shade_calls>>
    /\ UNCHANGED <<clipVars, rasterVars, runVars>>

NextRun ==
    \/ RunShadeVertex
    \/ RunShadeDone
    \/ RunClipLine
    \/ RunClipTriangle
    \/ RunClipDone
    \/ RunRasterizeLine
    \/ RunRasterizeTriangle
    \/ RunRasterizeDone
    \/ RunFragment
    \/ RunFinish

SpecRun == InitRun /\ [][NextRun]_vars

-----------------------------------------------------------------------------
(* Properties of run (checked under SpecRun)                               *)

\* C23: in a Lines pipeline every fragment that reaches the fragment loop
\* of run has floor(fb_position.x) in [0, width) and floor(fb_position.y) in
\* [0, height), so that the out-of-range count is zero after every run, also
\* for segments that end on the plane x = w or y = w
C23_LinesFragmentsInBounds ==
    primitive_type = "Lines" =>
        /\ \A k \in 1 .. Len(fragments) : InBounds(fragments[k])
        /\ out_of_range = 0

\* the vertices of a primitive: 2 for Lines, 3 for Triangles
PrimitiveSize == IF primitive_type = "Lines" THEN 2 ELSE 3

\* the clip calls of a whole run: the consecutive pairs, or triples, of
\* indices of the vertex list
ConsecutivePrimitives ==
    [k \in 1 .. (Len(vertices) \div PrimitiveSize) |->
        [j \in 1 .. PrimitiveSize |-> PrimitiveSize * (k - 1) + j - 1]]

\* the vertices the clip call on the indices c passes to emit_vertex
EmittedBy(c) ==
    IF primitive_type = "Lines"
    THEN ClipLineEmits(flags, shaded_vertices[c[1] + 1], shaded_vertices[c[2] + 1])
    ELSE <<shaded_vertices[c[1] + 1], shaded_vertices[c[2] + 1], shaded_vertices[c[3] + 1]>>

\* C24: run shades every input vertex once, in input order, and groups the
\* shaded vertices into consecutive primitives: n vertices give floor(n/2)
\* clip_line calls on the pairs (2i, 2i+1) for Lines and floor(n/3)
\* clip_triangle calls on the triples (3i, 3i+1, 3i+2) for Triangles; the
\* clipped vertices are those the calls emit, so that excess trailing
\* vertices contribute no clipped vertex and no fragment
C24_ConsecutivePrimitives ==
    /\ [](/\ Len(shaded_vertices) <= Len(vertices)
          /\ shaded_vertices = [k \in 1 .. Len(shaded_vertices) |->
                                   ShadeVertex(vertices[k].attributes)]
          /\ pc # "shade" => Len(shaded_vertices) = Len(vertices))
    /\ [](/\ Len(clip_calls) <= Len(ConsecutivePrimitives)
          /\ clip_calls = SubSeq(ConsecutivePrimitives, 1, Len(clip_calls))
          /\ pc \in {"rasterize", "loop", "finished"} => clip_calls = ConsecutivePrimitives)
    /\ [][clipped_vertices' # clipped_vertices =>
             /\ Len(clip_calls') = Len(clip_calls) + 1
             /\ clipped_vertices' = clipped_vertices \o
                   EmitVertices(EmittedBy(clip_calls'[Len(clip_calls')]))]_vars
    /\ [](/\ clip_calls = <<>> => clipped_vertices = <<>>
          /\ clipped_vertices = <<>> => (rasterized = <<>> /\ fragments = <<>>))

\* a finished Lines run of five vertices: two clip_line calls, on the pairs
\* (0,1) and (2,3), whose four clipped vertices gave fragments; the fifth
\* vertex was shaded and is in no call
C24_Witness ==
    /\ pc = "finished"
    /\ primitive_type = "Lines"
    /\ Len(vertices) = 5
    /\ Len(shaded_vertices) = 5
    /\ clip_calls = << <<0, 1>>, <<2, 3>> >>
    /\ Len(clipped_vertices) = 4
    /\ fragments # <<>>

-----------------------------------------------------------------------------
(* The perspective divide of the vertices clip_line emits (checked under   *)
(* SpecClipLine)                                                           *)

\* C27: every vertex clip_line emits has clip-space w strictly greater than
\* zero, so that 1/w in emit_vertex is never a division by zero; also for a
\* segment with an end at the clip-space origin
C27_ClipLineEmitsPositiveW ==
    pc = "line_clipped" =>
        \A i \in 1 .. Len(emitted) : emitted[i].clip_position[4] > 0

====
